---- MODULE Spec2Model ----
(***************************************************************************)
(* Browser session pool of site-planner.                                   *)
(*                                                                         *)
(* The coordinator is a Durable Object holding an in-memory Map of session *)
(* records.  Two implementations exist in the repository:                  *)
(*   "Simple"    SimpleBrowserSessionManager (simple-session-manager.ts),  *)
(*               the class the worker exports and deploys;                 *)
(*   "Optimized" BrowserSessionManager (optimized-browser-service.ts).     *)
(* Its callers are renderPage (optimized-browser-service.ts), the          *)
(* status/cleanup endpoint (api/browser-sessions.ts) and the alarm.        *)
(*                                                                         *)
(* A handler runs without interruption between two awaits of external I/O  *)
(* (puppeteer.launch, puppeteer.connect, browser.close); at such an await  *)
(* other handlers of the same object may run.  Every action below is one   *)
(* such uninterrupted block.                                               *)
(***************************************************************************)
EXTENDS Integers, Sequences, FiniteSets, TLC

\* maxSessions of acquireSession / getMaxSessions()
MaxSessions == 8

\* Granularity of the clock: Date.now() advances in steps of ten minutes.
\* A handler of the coordinator lasts seconds (every await in it is under
\* the 30 s puppeteer timeouts), so the clock is advanced between the
\* handlers: while the callers are idle or hold a session in a render, and
\* no cleanup is in flight.
TickMs == 10 * 60 * 1000

\* staleThreshold of cleanup() and of cleanupStaleSessions()
StaleThresholdSimple == 10 * 60 * 1000
StaleThresholdOptimized == 5 * 60 * 1000

\* Bounds of the exploration: the clock ticks at most MaxTicks - 1 times
\* (in a run that began with one caller rendering alone: MaxWarmTicks - 1
\* times, before the first launch that follows), and the Browser Factory
\* launches at most MaxLaunches sessions once the callers run concurrently.  A cleanup request and an alarm are
\* explored one at a time: the cleanup of one is not started while the
\* other's is in flight.
MaxTicks == 3
MaxLaunches == 2
MaxWarmTicks == 2

\* the greatest table the release handler is explored on by itself
MaxTable == 3

\* A run may begin with one caller rendering alone, every call to the Browser
\* Factory succeeding, until the table holds this many records; the clock
\* stands still until then.
WarmRecords == MaxSessions - 1

Callers == {"c1", "c2"}
CleanupCallers == {"admin", "timer"}
Procs == Callers \cup CleanupCallers

Ids == 1..(2 * WarmRecords + MaxLaunches)
NoId == 0

VARIABLES
    variant,    \* which coordinator class is deployed
    now,        \* Date.now()
    sessions,   \* Map<string, SessionInfo>, in insertion order
    nextId,     \* the Browser Factory's next fresh session id
    remote,     \* remote sessions launched and not closed
    pc,         \* position of every caller / handler
    sid,        \* renderPage's local sessionId
    resp,       \* renderPage's acquireResponse
    list,       \* cleanup's sessionsToRemove / sessionsToClose
    idx,        \* cleanup's position in that list
    grants,     \* per id: acquire results handed out and not yet released
    alarmSet,   \* an alarm is scheduled
    cleanupResp,\* the response to triggerSessionCleanup, while it is read
    idLimit,    \* the last id the factory issues in this run; 0 while one
                \* caller renders alone
    lastOp,     \* the request the coordinator answered last, with its answer
    sizeAtStart \* sessions.size when the cleanup request in flight began

vars == <<variant, now, sessions, nextId, remote, pc, sid, resp, list, idx,
          grants, alarmSet, cleanupResp, idLimit, lastOp, sizeAtStart>>

NoCleanupResp == [cleanedSessions |-> 0, remainingSessions |-> 0]

\* one caller is still rendering alone
Warming == idLimit = 0

\* the run began with one caller rendering alone
Warmed == idLimit > MaxLaunches

NoResp == [status |-> 0, sessionId |-> NoId, isReused |-> FALSE]

NoCounts == [totalSessions |-> 0, inUseSessions |-> 0,
             availableSessions |-> 0, maxSessions |-> 0]

\* A request answered by fetch(): its action, the sessionId in its body or
\* in its answer, the HTTP status, and the counts of a status answer.
\*   by       the caller of an acquire that awaits the Browser Factory; of
\*            a release that no render of this service sent: "repeat" if
\*            the record was idle already, "other" if not;
\*   cleaned  handleAcquireSession went through cleanupStaleSessions;
\*   chain    of an acquire: no other request was handled between its start
\*            and its answer; of a release: it follows such an acquire at
\*            once and releases the id that acquire answered;
\*   prevId   of an acquire: the id of the release with chain that it
\*            follows at once.
OpOf(o, id, st) ==
    [op |-> o, id |-> id, status |-> st, by |-> "none", cleaned |-> FALSE,
     chain |-> FALSE, prevId |-> NoId, counts |-> NoCounts]

\* no acquire, release or status answered since the last other handler ran
NoOp == OpOf("none", NoId, 0)

----------------------------------------------------------------------------
(* The session table *)

SessionIds(sess) == {sess[i].sessionId : i \in 1..Len(sess)}

\* Map.get: the position of the record with this key, 0 when absent
Get(sess, id) ==
    IF \E i \in 1..Len(sess) : sess[i].sessionId = id
    THEN CHOOSE i \in 1..Len(sess) : sess[i].sessionId = id
    ELSE 0

\* Map.delete
Delete(sess, id) == SelectSeq(sess, LAMBDA r : r.sessionId # id)

\* Map.set: replace in place, or append a new key
Set(sess, rec) ==
    IF Get(sess, rec.sessionId) # 0
    THEN [sess EXCEPT ![Get(sess, rec.sessionId)] = rec]
    ELSE Append(sess, rec)

ActiveCount(sess) == Cardinality({i \in 1..Len(sess) : sess[i].inUse})
IdleCount(sess) == Cardinality({i \in 1..Len(sess) : ~sess[i].inUse})

\* variant of the scan that does not remember the best lastUsed seen
RECURSIVE FindBest_lastIdle(_, _, _, _)
FindBest_lastIdle(sess, i, best, mostRecentUsed) ==
    IF i > Len(sess) THEN best
    ELSE IF ~sess[i].inUse /\ sess[i].lastUsed > mostRecentUsed
         THEN FindBest_lastIdle(sess, i + 1, i, mostRecentUsed)
         ELSE FindBest_lastIdle(sess, i + 1, best, mostRecentUsed)

RECURSIVE FindBest(_, _, _, _)
FindBest(sess, i, best, mostRecentUsed) ==
    IF i > Len(sess) THEN best
    ELSE IF ~sess[i].inUse /\ sess[i].lastUsed > mostRecentUsed
         THEN FindBest(sess, i + 1, i, sess[i].lastUsed)
         ELSE FindBest(sess, i + 1, best, mostRecentUsed)

\* variant of the scan that does not test inUse
RECURSIVE FindAny(_, _, _, _)
FindAny(sess, i, best, mostRecentUsed) ==
    IF i > Len(sess) THEN best
    ELSE IF sess[i].lastUsed > mostRecentUsed
         THEN FindAny(sess, i + 1, i, sess[i].lastUsed)
         ELSE FindAny(sess, i + 1, best, mostRecentUsed)

findAvailableSession_anyRecord(sess) == FindAny(sess, 1, 0, 0)

\* variant that starts the scan from mostRecentUsed = Date.now()
findAvailableSession_sinceNow(sess) == FindBest(sess, 1, 0, now)

\* findAvailableSession: position of the chosen record, 0 for undefined
findAvailableSession(sess) == FindBest(sess, 1, 0, 0)

\* variant with > for >=
AtCapacity_offByOne(sess) == Len(sess) > MaxSessions

\* this.sessions.size >= maxSessions
AtCapacity(sess) == Len(sess) >= MaxSessions

staleThreshold == IF variant = "Simple" THEN StaleThresholdSimple
                  ELSE StaleThresholdOptimized

\* variant without the negation of inUse
IsStale_inUse(r, t) == r.inUse /\ (t - r.lastUsed) > staleThreshold

\* !session.inUse && (now - session.lastUsed) > staleThreshold
IsStale(r, t) == ~r.inUse /\ (t - r.lastUsed) > staleThreshold

RECURSIVE IdsOf(_)
IdsOf(sess) == IF sess = <<>> THEN <<>>
               ELSE <<Head(sess).sessionId>> \o IdsOf(Tail(sess))

\* variant that lists the oldest record when no record is stale
StaleIds_orOldest(sess, t) ==
    IF \E i \in 1..Len(sess) : IsStale(sess[i], t)
    THEN IdsOf(SelectSeq(sess, LAMBDA r : IsStale(r, t)))
    ELSE IF sess = <<>> THEN <<>> ELSE <<sess[1].sessionId>>

\* the first loop of cleanup: the ids of the stale idle records, in Map order
StaleIds(sess, t) == IdsOf(SelectSeq(sess, LAMBDA r : IsStale(r, t)))

\* The position in lst, from i on, of the next id the second loop of cleanup
\* connects to.  cleanupStaleSessions skips an id whose record is gone
\* (if (session)); cleanup() does not.
RECURSIVE NextToCloseIn(_, _, _, _)
NextToCloseIn(v, sess, lst, i) ==
    IF i > Len(lst) THEN i
    ELSE IF v = "Optimized" /\ Get(sess, lst[i]) = 0
         THEN NextToCloseIn(v, sess, lst, i + 1)
         ELSE i

\* the same in the class that is deployed
NextToClose(sess, lst, i) == NextToCloseIn(variant, sess, lst, i)

----------------------------------------------------------------------------
Init ==
    /\ variant \in {"Simple", "Optimized"}
    /\ now = TickMs
    /\ sessions = <<>>
    /\ nextId = 1
    /\ remote = {}
    /\ pc = [p \in Procs |-> "idle"]
    /\ sid = [c \in Callers |-> NoId]
    /\ resp = [c \in Callers |-> NoResp]
    /\ list = [p \in Procs |-> <<>>]
    /\ idx = [p \in Procs |-> 0]
    /\ grants = [i \in Ids |-> 0]
    /\ alarmSet = TRUE
    /\ cleanupResp = NoCleanupResp
    /\ idLimit \in {0, MaxLaunches}
    /\ lastOp = NoOp
    /\ sizeAtStart = 0

\* time passes
Tick ==
    /\ ~Warming
    /\ \A p \in CleanupCallers : pc[p] = "idle"
    /\ \A c \in Callers : pc[c] \in {"idle", "page"}
    /\ Warmed => nextId - 1 + MaxLaunches = idLimit
    /\ now < (IF Warmed THEN MaxWarmTicks ELSE MaxTicks) * TickMs
    /\ now' = now + TickMs
    /\ UNCHANGED sizeAtStart
    /\ UNCHANGED <<variant, sessions, nextId, remote, pc, sid, resp, list,
                   idx, grants, alarmSet, cleanupResp, idLimit, lastOp>>

----------------------------------------------------------------------------
(* acquire *)

\* variant of the reuse branch that refreshes lastUsed of every record
AcquireReuse_touchAll(c, sess, k) ==
    /\ sessions' = [i \in 1..Len(sess) |->
                       IF i = k THEN [sess[i] EXCEPT !.inUse = TRUE,
                                                     !.lastUsed = now]
                       ELSE [sess[i] EXCEPT !.lastUsed = now]]
    /\ resp' = [resp EXCEPT ![c] = [status |-> 200,
                                    sessionId |-> sess[k].sessionId,
                                    isReused |-> TRUE]]
    /\ sid' = [sid EXCEPT ![c] = sess[k].sessionId]
    /\ grants' = [grants EXCEPT ![sess[k].sessionId] = @ + 1]
    /\ pc' = [pc EXCEPT ![c] = "connect"]

\* the reuse branch: mark in use, answer isReused: true; renderPage keeps
\* the id
AcquireReuse(c, sess, k) ==
    /\ sessions' = [sess EXCEPT ![k].inUse = TRUE, ![k].lastUsed = now]
    /\ resp' = [resp EXCEPT ![c] = [status |-> 200,
                                    sessionId |-> sess[k].sessionId,
                                    isReused |-> TRUE]]
    /\ sid' = [sid EXCEPT ![c] = sess[k].sessionId]
    /\ grants' = [grants EXCEPT ![sess[k].sessionId] = @ + 1]
    /\ pc' = [pc EXCEPT ![c] = "connect"]

\* variant that leaves a record of the session that was not launched
AcquireFailed_halfRecord(c, sess, status) ==
    /\ sessions' = IF status = 500
                   THEN Append(sess, [sessionId |-> nextId, lastUsed |-> now,
                                      inUse |-> TRUE, createdAt |-> now])
                   ELSE sess
    /\ resp' = [resp EXCEPT ![c] = [status |-> status, sessionId |-> NoId,
                                    isReused |-> FALSE]]
    /\ sid' = [sid EXCEPT ![c] = NoId]
    /\ pc' = [pc EXCEPT ![c] = "idle"]
    /\ UNCHANGED grants

\* an error response: renderPage throws "Failed to acquire session: <status>"
\* with sessionId undefined, so its catch block releases nothing
AcquireFailed(c, sess, status) ==
    /\ sessions' = sess
    /\ resp' = [resp EXCEPT ![c] = [status |-> status, sessionId |-> NoId,
                                    isReused |-> FALSE]]
    /\ sid' = [sid EXCEPT ![c] = NoId]
    /\ pc' = [pc EXCEPT ![c] = "idle"]
    /\ UNCHANGED grants

\* what follows the second loop of cleanup once it is through
CleanupReturn(p, sess, lst) ==
    IF p = "timer"
    THEN \* alarm(): back from cleanup, "Schedule next cleanup"
         /\ sessions' = sess
         /\ pc' = [pc EXCEPT ![p] = "idle"]
         /\ list' = [list EXCEPT ![p] = <<>>]
         /\ idx' = [idx EXCEPT ![p] = 0]
         /\ UNCHANGED <<sid, resp, grants, cleanupResp>>
    ELSE IF p = "admin"
    THEN \* cleanup() / handleCleanup() answer
         /\ sessions' = sess
         /\ pc' = [pc EXCEPT ![p] = "returned"]
         /\ list' = [list EXCEPT ![p] = lst]
         /\ idx' = [idx EXCEPT ![p] = Len(lst) + 1]
         /\ cleanupResp' = [cleanedSessions |-> Len(lst),
                            remainingSessions |-> Len(sess)]
         /\ UNCHANGED <<sid, resp, grants>>
    ELSE \* handleAcquireSession: check again after cleanup
         /\ list' = [list EXCEPT ![p] = <<>>]
         /\ idx' = [idx EXCEPT ![p] = 0]
         /\ IF findAvailableSession(sess) # 0
            THEN AcquireReuse(p, sess, findAvailableSession(sess))
            ELSE AcquireFailed(p, sess, 429)
         /\ UNCHANGED cleanupResp

\* the second loop of cleanup from position i on, the table being sess
CleanupLoop(p, sess, lst, i) ==
    LET j == NextToClose(sess, lst, i) IN
    IF j > Len(lst)
    THEN CleanupReturn(p, sess, lst)
    ELSE /\ sessions' = sess
         /\ list' = [list EXCEPT ![p] = lst]
         /\ idx' = [idx EXCEPT ![p] = j]
         /\ pc' = [pc EXCEPT ![p] = "cl_connect"]
         /\ UNCHANGED <<sid, resp, grants, cleanupResp>>

\* variant in which alarm() schedules the next alarm only if its cleanup
\* had nothing to close
AlarmAfter_onlyIfQuiet(p) ==
    alarmSet' = IF p = "timer" THEN pc'[p] = "idle" /\ pc[p] = "idle"
                ELSE alarmSet

\* an alarm is pending again once alarm() has run to its setAlarm
AlarmAfter(p) ==
    alarmSet' = IF p = "timer" THEN pc'[p] = "idle" ELSE alarmSet

\* alarm() has run to its end, the id being the last one its cleanup
\* removed, or it is still in its cleanup
AlarmRan ==
    lastOp' = IF pc'["timer"] # "idle" THEN NoOp
              ELSE IF pc["timer"] = "idle" THEN OpOf("alarm", NoId, 0)
              ELSE OpOf("alarm", list["timer"][idx["timer"]], 0)

\* the answer of acquire, once caller c has it; cleaned tells whether
\* handleAcquireSession ran cleanupStaleSessions on the way
AcquireAnswered(c, cleaned) ==
    LET alone == \/ pc[c] = "idle"
                 \/ lastOp.op = "acquiring" /\ lastOp.by = c
        prev == IF pc[c] = "idle" /\ lastOp.op = "release" /\ lastOp.chain
                THEN lastOp.id
                ELSE IF pc[c] # "idle" /\ alone THEN lastOp.prevId
                ELSE NoId
    IN  lastOp' = IF pc'[c] \in {"connect", "idle"}
                  THEN [OpOf("acquire", resp'[c].sessionId, resp'[c].status)
                           EXCEPT !.cleaned = cleaned, !.chain = alone,
                                  !.prevId = prev]
                  ELSE IF alone
                  THEN [OpOf("acquiring", NoId, 0)
                           EXCEPT !.by = c, !.prevId = prev]
                  ELSE NoOp

\* the priority field of an acquire request body: renderPage sends 'normal',
\* the type allows 'high', and the field is optional
Priorities == {"high", "normal", "absent"}

\* "priority: body.priority || 'normal'", the value the handler logs
loggedPriority(prio) == IF prio = "absent" THEN "normal" ELSE prio

\* variant in which handleAcquireSession answers 503 after its cleanup pass
AcquireAtCapacity_busy(v, c) ==
    /\ AcquireFailed(c, sessions, IF v = "Simple" THEN 429 ELSE 503)
    /\ UNCHANGED <<list, idx, cleanupResp>>

\* acquire in class v when no record is idle and the table is at capacity:
\* "Session limit reached" at once, or after cleanupStaleSessions and a
\* second findAvailableSession
AcquireAtCapacity(v, c) ==
    IF v = "Simple"
    THEN /\ AcquireFailed(c, sessions, 429)
         /\ UNCHANGED <<list, idx, cleanupResp>>
    ELSE CleanupLoop(c, sessions, StaleIds(sessions, now), 1)

\* acquireSession / handleAcquireSession run up to their first await of the
\* Browser Factory
AcquireSync(c) ==
    /\ pc[c] = "idle"
    /\ Warming => c = "c1"
    /\ IF findAvailableSession(sessions) # 0
       THEN /\ AcquireReuse(c, sessions, findAvailableSession(sessions))
            /\ UNCHANGED <<list, idx, cleanupResp>>
       ELSE IF AtCapacity(sessions)
       THEN AcquireAtCapacity(variant, c)
       ELSE /\ pc' = [pc EXCEPT ![c] = "launching"]
            /\ resp' = [resp EXCEPT ![c] = NoResp]
            /\ sid' = [sid EXCEPT ![c] = NoId]
            /\ UNCHANGED <<sessions, grants, list, idx, cleanupResp>>
    /\ AcquireAnswered(c, /\ variant = "Optimized"
                          /\ findAvailableSession(sessions) = 0
                          /\ AtCapacity(sessions))
    /\ UNCHANGED sizeAtStart
    /\ UNCHANGED <<variant, now, nextId, remote, alarmSet, idLimit>>

\* variant that turns away the requests of priority 'high'
AcquireWith_highRefused(c, prio) ==
    /\ prio # "high"
    /\ AcquireSync(c)

\* the handler of an acquire request whose body carries this priority: the
\* priority goes to the log line, and to nothing else
AcquireWith(c, prio) ==
    /\ loggedPriority(prio) \in {"high", "normal"}
    /\ AcquireSync(c)

\* renderPage sends acquire
Acquire(c) == \E prio \in Priorities : AcquireWith(c, prio)

\* the factory has a fresh id left to issue
CanLaunch == Warming \/ nextId <= idLimit

\* puppeteer.launch inside acquire settles
AcquireLaunched(c) ==
    /\ pc[c] = "launching"
    /\ \/ /\ CanLaunch
          /\ sessions' = Set(sessions, [sessionId |-> nextId, lastUsed |-> now,
                                        inUse |-> TRUE, createdAt |-> now])
          /\ remote' = remote \cup {nextId}
          /\ grants' = [grants EXCEPT ![nextId] = @ + 1]
          /\ resp' = [resp EXCEPT ![c] = [status |-> 200, sessionId |-> nextId,
                                          isReused |-> FALSE]]
          /\ sid' = [sid EXCEPT ![c] = nextId]
          /\ nextId' = nextId + 1
          /\ pc' = [pc EXCEPT ![c] = "connect"]
       \/ \* launch rejects: acquire rethrows, fetch answers 500
          /\ ~Warming
          /\ AcquireFailed(c, sessions, 500)
          /\ UNCHANGED <<nextId, remote>>
    /\ AcquireAnswered(c, FALSE)
    /\ UNCHANGED sizeAtStart
    /\ UNCHANGED <<variant, now, list, idx, alarmSet, cleanupResp, idLimit>>

----------------------------------------------------------------------------
(* renderPage after acquire *)

\* "Connect to the session": connect to the reused id, or launch
RenderConnect(c) ==
    /\ pc[c] = "connect"
    /\ IF resp[c].isReused
       THEN \/ /\ sid[c] \in remote
               /\ pc' = [pc EXCEPT ![c] = "page"]
               /\ UNCHANGED <<sid, nextId, remote>>
            \/ /\ ~Warming
               /\ pc' = [pc EXCEPT ![c] = "release_err"]
               /\ UNCHANGED <<sid, nextId, remote>>
       ELSE \/ /\ CanLaunch
               /\ sid' = [sid EXCEPT ![c] = nextId]
               /\ remote' = remote \cup {nextId}
               /\ nextId' = nextId + 1
               /\ pc' = [pc EXCEPT ![c] = "page"]
            \/ /\ ~Warming
               /\ pc' = [pc EXCEPT ![c] = "release_err"]
               /\ UNCHANGED <<sid, nextId, remote>>
    /\ UNCHANGED sizeAtStart
    /\ UNCHANGED <<variant, now, sessions, resp, list, idx, grants, alarmSet,
                   cleanupResp, idLimit, lastOp>>

\* the page work: it ends with browser.disconnect(), or it throws
RenderPage(c) ==
    /\ pc[c] = "page"
    /\ \E ok \in IF Warming THEN {TRUE} ELSE BOOLEAN :
          pc' = [pc EXCEPT ![c] = IF ok THEN "release_ok" ELSE "release_err"]
    /\ UNCHANGED sizeAtStart
    /\ UNCHANGED <<variant, now, sessions, nextId, remote, sid, resp, list,
                   idx, grants, alarmSet, cleanupResp, idLimit, lastOp>>

\* variant that clears inUse and leaves lastUsed as it is
Release_noRefresh(sess, id) ==
    IF Get(sess, id) = 0 THEN sess
    ELSE [sess EXCEPT ![Get(sess, id)].inUse = FALSE]

\* variant that refreshes lastUsed and leaves inUse as it is
Release_stillInUse(sess, id) ==
    IF Get(sess, id) = 0 THEN sess
    ELSE [sess EXCEPT ![Get(sess, id)].lastUsed = now]

\* releaseSession / handleReleaseSession on the table
Release(sess, id) ==
    IF Get(sess, id) = 0 THEN sess
    ELSE [sess EXCEPT ![Get(sess, id)].inUse = FALSE,
                      ![Get(sess, id)].lastUsed = now]

\* variant that refuses the release of a record that is idle
ReleaseStatus_idleConflict(sess, id) ==
    IF Get(sess, id) = 0 THEN 404
    ELSE IF sess[Get(sess, id)].inUse THEN 200 ELSE 409

\* variant that answers success for every id
ReleaseStatus_ok(sess, id) == 200

\* the status of the answer to release: 404 Session not found, or success
ReleaseStatus(sess, id) == IF Get(sess, id) = 0 THEN 404 ELSE 200

\* renderPage sends release with its sessionId, after success or in catch
RenderRelease(c) ==
    /\ pc[c] \in {"release_ok", "release_err"}
    /\ sessions' = Release(sessions, sid[c])
    /\ grants' = IF Get(sessions, sid[c]) = 0 THEN grants
                 ELSE [grants EXCEPT ![sid[c]] = 0]
    /\ pc' = [pc EXCEPT ![c] = "idle"]
    /\ sid' = [sid EXCEPT ![c] = NoId]
    /\ resp' = [resp EXCEPT ![c] = NoResp]
    /\ idLimit' = IF Warming /\ Len(sessions') >= WarmRecords
                  THEN nextId - 1 + MaxLaunches
                  ELSE idLimit
    /\ lastOp' = [OpOf("release", sid[c], ReleaseStatus(sessions, sid[c]))
                     EXCEPT !.chain = /\ lastOp.op = "acquire"
                                      /\ lastOp.chain
                                      /\ lastOp.status = 200
                                      /\ lastOp.id = sid[c]]
    /\ UNCHANGED sizeAtStart
    /\ UNCHANGED <<variant, now, nextId, remote, list, idx, alarmSet,
                   cleanupResp>>

----------------------------------------------------------------------------
(* cleanup *)

\* variant that counts every record as available
getStatus_allAvailable(sess) ==
    [totalSessions |-> Len(sess),
     inUseSessions |-> Len(SelectSeq(sess, LAMBDA r : r.inUse)),
     availableSessions |-> Len(sess),
     maxSessions |-> 8]

\* getStatus / handleStatus: the counts of the answer
getStatus(sess) ==
    [totalSessions |-> Len(sess),
     inUseSessions |-> Len(SelectSeq(sess, LAMBDA r : r.inUse)),
     availableSessions |-> Len(SelectSeq(sess, LAMBDA r : ~r.inUse)),
     maxSessions |-> 8]

\* getSessionStatus: the status request is answered
Status ==
    /\ ~Warming
    /\ lastOp' = [OpOf("status", NoId, 200)
                     EXCEPT !.counts = getStatus(sessions)]
    /\ UNCHANGED sizeAtStart
    /\ UNCHANGED <<variant, now, sessions, nextId, remote, pc, sid, resp, list,
                   idx, grants, alarmSet, cleanupResp, idLimit>>

\* triggerSessionCleanup: cleanup() / handleCleanup() up to the first await
CleanupRequest ==
    /\ pc["admin"] = "idle"
    /\ pc["timer"] = "idle"
    /\ ~Warming
    /\ CleanupLoop("admin", sessions, StaleIds(sessions, now), 1)
    /\ lastOp' = NoOp
    /\ sizeAtStart' = Len(sessions)
    /\ UNCHANGED <<variant, now, nextId, remote, alarmSet, idLimit>>

\* triggerSessionCleanup has read the response
CleanupResponse ==
    /\ pc["admin"] = "returned"
    /\ pc' = [pc EXCEPT !["admin"] = "idle"]
    /\ list' = [list EXCEPT !["admin"] = <<>>]
    /\ idx' = [idx EXCEPT !["admin"] = 0]
    /\ cleanupResp' = NoCleanupResp
    /\ sizeAtStart' = 0
    /\ UNCHANGED <<variant, now, sessions, nextId, remote, sid, resp, grants,
                   alarmSet, idLimit, lastOp>>

\* alarm(): runs cleanup, then schedules the next alarm
Alarm ==
    /\ alarmSet
    /\ pc["timer"] = "idle"
    /\ pc["admin"] = "idle"
    /\ ~Warming
    /\ CleanupLoop("timer", sessions, StaleIds(sessions, now), 1)
    /\ AlarmAfter("timer")
    /\ AlarmRan
    /\ UNCHANGED sizeAtStart
    /\ UNCHANGED <<variant, now, nextId, remote, idLimit>>

\* a step of cleanup: of handleAcquireSession's own pass for a caller, of
\* alarm(), or of a cleanup request
CleanupAnswered(p) ==
    IF p \in Callers THEN AcquireAnswered(p, TRUE)
    ELSE IF p = "timer" THEN AlarmRan
    ELSE lastOp' = NoOp

\* puppeteer.connect inside cleanup settles
CleanupConnected(p) ==
    /\ pc[p] = "cl_connect"
    /\ \/ /\ list[p][idx[p]] \in remote
          /\ pc' = [pc EXCEPT ![p] = "cl_close"]
          /\ UNCHANGED <<sessions, sid, resp, list, idx, grants, cleanupResp>>
       \/ \* connect rejects: catch, then delete and go on
          CleanupLoop(p, Delete(sessions, list[p][idx[p]]), list[p],
                      idx[p] + 1)
    /\ AlarmAfter(p)
    /\ CleanupAnswered(p)
    /\ UNCHANGED sizeAtStart
    /\ UNCHANGED <<variant, now, nextId, remote, idLimit>>

\* browser.close inside cleanup settles; then delete and go on
CleanupClosed(p) ==
    /\ pc[p] = "cl_close"
    /\ \E ok \in BOOLEAN :
          remote' = IF ok THEN remote \ {list[p][idx[p]]} ELSE remote
    /\ CleanupLoop(p, Delete(sessions, list[p][idx[p]]), list[p], idx[p] + 1)
    /\ AlarmAfter(p)
    /\ CleanupAnswered(p)
    /\ UNCHANGED sizeAtStart
    /\ UNCHANGED <<variant, now, nextId, idLimit>>

----------------------------------------------------------------------------
\* triggerSessionCleanup reads the answer of cleanup as soon as it is there;
\* in every other state a caller, the status endpoint, the cleanup endpoint,
\* the alarm or the Browser Factory takes a step.
Next ==
    \/ CleanupResponse
    \/ /\ pc["admin"] # "returned"
       /\ \/ Tick
          \/ \E c \in Callers : Acquire(c)
          \/ \E c \in Callers : AcquireLaunched(c)
          \/ \E c \in Callers : RenderConnect(c)
          \/ \E c \in Callers : RenderPage(c)
          \/ \E c \in Callers : RenderRelease(c)
          \/ Status
          \/ CleanupRequest
          \/ Alarm
          \/ \E p \in Procs : CleanupConnected(p)
          \/ \E p \in Procs : CleanupClosed(p)

Spec == Init /\ [][Next]_vars

\* a cleanup request is processed while alarm() awaits the Browser Factory
CleanupRequestDuringAlarm ==
    /\ pc["admin"] = "idle"
    /\ pc["timer"] \in {"cl_connect", "cl_close"}
    /\ CleanupLoop("admin", sessions, StaleIds(sessions, now), 1)
    /\ lastOp' = NoOp
    /\ sizeAtStart' = Len(sessions)
    /\ UNCHANGED <<variant, now, nextId, remote, alarmSet, idLimit>>

\* alarm() starts while a cleanup request awaits the Browser Factory
AlarmDuringCleanup ==
    /\ alarmSet
    /\ pc["timer"] = "idle"
    /\ pc["admin"] \in {"cl_connect", "cl_close"}
    /\ CleanupLoop("timer", sessions, StaleIds(sessions, now), 1)
    /\ AlarmAfter("timer")
    /\ AlarmRan
    /\ UNCHANGED sizeAtStart
    /\ UNCHANGED <<variant, now, nextId, remote, idLimit>>

\* the coordinator with a cleanup request and an alarm in flight together
OverlapNext == Next \/ CleanupRequestDuringAlarm \/ AlarmDuringCleanup

OverlapSpec == Init /\ [][OverlapNext]_vars

\* The remote browser of an idle record goes away by itself: the Browser
\* Factory ends an instance after 60 seconds of inactivity.
RemoteDies(id) ==
    /\ ~Warming
    /\ id \in remote
    /\ Get(sessions, id) # 0
    /\ ~sessions[Get(sessions, id)].inUse
    /\ remote' = remote \ {id}
    /\ UNCHANGED sizeAtStart
    /\ UNCHANGED <<variant, now, sessions, nextId, pc, sid, resp, list, idx,
                   grants, alarmSet, cleanupResp, idLimit, lastOp>>

\* the coordinator and its callers, with remote browsers that may go away
DeathNext == Next \/ \E id \in Ids : RemoteDies(id)

DeathSpec == Init /\ [][DeathNext]_vars

\* A release request for id from any client of the Durable Object, the
\* render that holds id or not: fetch() does not look at the sender.
ForeignRelease(id) ==
    /\ sessions' = Release(sessions, id)
    /\ grants' = IF Get(sessions, id) = 0 THEN grants
                 ELSE [grants EXCEPT ![id] = 0]
    /\ lastOp' = [OpOf("release", id, ReleaseStatus(sessions, id))
                     EXCEPT !.by = IF /\ Get(sessions, id) # 0
                                      /\ ~sessions[Get(sessions, id)].inUse
                                   THEN "repeat" ELSE "other"]
    /\ UNCHANGED <<variant, now, nextId, remote, pc, sid, resp, list, idx,
                   alarmSet, cleanupResp, idLimit, sizeAtStart>>

\* The release handler on its own: it awaits nothing but the body of its
\* request, so what it does depends on the table and the clock only.  The
\* table is any table of up to MaxTable records, each in use or idle, that
\* acquire has filled at the time of Init; no render is under way.
HandlerInit ==
    /\ variant \in {"Simple", "Optimized"}
    /\ now = TickMs
    /\ \E n \in 0..MaxTable : \E f \in [1..n -> BOOLEAN] :
          /\ sessions = [i \in 1..n |-> [sessionId |-> i, lastUsed |-> TickMs,
                                         inUse |-> f[i], createdAt |-> TickMs]]
          /\ nextId = n + 1
          /\ remote = 1..n
          /\ grants = [i \in Ids |-> IF i <= n /\ f[i] THEN 1 ELSE 0]
    /\ pc = [p \in Procs |-> "idle"]
    /\ sid = [c \in Callers |-> NoId]
    /\ resp = [c \in Callers |-> NoResp]
    /\ list = [p \in Procs |-> <<>>]
    /\ idx = [p \in Procs |-> 0]
    /\ alarmSet = TRUE
    /\ cleanupResp = NoCleanupResp
    /\ idLimit = MaxLaunches
    /\ lastOp = NoOp
    /\ sizeAtStart = 0

\* releases from any client, and time passing between them
HandlerNext == Tick \/ \E id \in Ids : ForeignRelease(id)

HandlerSpec == HandlerInit /\ [][HandlerNext]_vars

\* the cleanup in flight goes on: its call to the Browser Factory settles,
\* or its answer is read
CleanupGoesOn ==
    \/ CleanupResponse
    \/ \E p \in CleanupCallers : CleanupConnected(p) \/ CleanupClosed(p)

\* The runtime delivers an alarm that is due, and every call to the Browser
\* Factory settles (puppeteer's timeouts); the caller that renders alone at
\* the start of a run goes on.
TimerFairness ==
    /\ SF_vars(Alarm)
    /\ WF_vars(CleanupGoesOn)
    /\ WF_vars(Warming /\ Next)

LiveSpec == Spec /\ TimerFairness

\* A timestamp seen from a clock that is one tick behind: the clock of a run
\* without end stays at MaxTicks * TickMs and the timestamps of the table
\* move back instead, down to the time of Init.  A record that old is
\* stale under both thresholds.
Earlier(t) == IF t - TickMs >= TickMs THEN t - TickMs ELSE TickMs

\* time passes, at any moment after the start of a run
TimeGoesOn ==
    /\ ~Warming
    /\ IF now < MaxTicks * TickMs
       THEN /\ now' = now + TickMs
            /\ UNCHANGED sessions
       ELSE /\ sessions' = [i \in 1..Len(sessions) |->
                               [sessions[i] EXCEPT !.lastUsed = Earlier(@),
                                                   !.createdAt = Earlier(@)]]
            /\ UNCHANGED now
    /\ UNCHANGED <<variant, nextId, remote, pc, sid, resp, list, idx, grants,
                   alarmSet, cleanupResp, idLimit, lastOp, sizeAtStart>>

\* the coordinator and its callers in a run without end: remote browsers go
\* away and the time goes on
TrafficNext == DeathNext \/ TimeGoesOn

\* renderPage of caller c goes on: its call to the Browser Factory settles,
\* its page work ends or throws, its release is sent
RenderGoesOn(c) ==
    \/ AcquireLaunched(c)
    \/ RenderConnect(c)
    \/ RenderPage(c)
    \/ RenderRelease(c)

\* Time passes again and again and a render that has begun comes to its
\* end, next to what the runtime and the Browser Factory guarantee.  Nothing
\* makes a caller begin a render.
TrafficFairness ==
    /\ WF_vars(TimeGoesOn)
    /\ \A c \in Callers : WF_vars(RenderGoesOn(c))
    /\ SF_vars(Alarm)
    /\ WF_vars(CleanupGoesOn)
    /\ WF_vars(Warming /\ Next)

TrafficSpec == Init /\ [][TrafficNext]_vars /\ TrafficFairness

----------------------------------------------------------------------------
(* Properties *)

Holding == {"connect", "page", "release_ok", "release_err"}

AllActive(sess) == \A i \in 1..Len(sess) : sess[i].inUse

\* the step is caller c's acquire being processed
AcquireStep(c) ==
    /\ pc[c] = "idle"
    /\ pc'[c] # "idle" \/ resp'[c] # resp[c]

\* C1 Mutual exclusion: no session id is handed out by acquire while an
\* earlier acquire result for the same id is still unreleased.
MutualExclusion == \A id \in Ids : grants[id] <= 1

\* two callers hold sessions at once, one of them a reused one
MutualExclusionWitness ==
    \E c, d \in Callers :
        /\ c # d
        /\ pc[c] \in Holding /\ pc[d] \in Holding
        /\ resp[c].isReused
        /\ resp[c].sessionId # resp[d].sessionId
        /\ grants[resp[c].sessionId] = 1
        /\ grants[resp[d].sessionId] = 1

\* C2 Capacity bound: the number of records in use never exceeds
\* maxSessions.
CapacityBound == ActiveCount(sessions) <= MaxSessions

\* C3 Reservation before creation: a creation that is pending counts against
\* the capacity, so records plus pending launches never exceed maxSessions.
ReservationBeforeCreation ==
    Len(sessions) + Cardinality({c \in Callers : pc[c] = "launching"})
        <= MaxSessions

\* C4 Eviction safety: a step that removes a record, or closes its remote
\* session, finds that record not in use.
EvictionSafety ==
    [][\A i \in 1..Len(sessions) :
          (\/ sessions[i].sessionId \notin SessionIds(sessions')
           \/ sessions[i].sessionId \in remote \ remote')
          => ~sessions[i].inUse]_vars

\* C5 Caller protocol: while renderPage works on a session and when it
\* releases, its session id is the one acquire returned.
CallerProtocol ==
    \A c \in Callers :
        pc[c] \in {"page", "release_ok", "release_err"}
            => sid[c] = resp[c].sessionId

\* C6 Pool within the platform cap: at most maxSessions remote sessions are
\* launched and not closed, and each of them has a record in the table.
PoolWithinCap ==
    /\ Cardinality(remote) <= MaxSessions
    /\ remote \subseteq SessionIds(sessions)

\* C7 Reuse preference: an acquire processed while a record is idle answers
\* isReused true with the id of a record that was idle, marks it in use and
\* launches nothing.
ReusePreference ==
    [][\A c \in Callers :
          (AcquireStep(c) /\ IdleCount(sessions) > 0)
          => /\ pc'[c] = "connect"
             /\ resp'[c].status = 200
             /\ resp'[c].isReused
             /\ Get(sessions, resp'[c].sessionId) # 0
             /\ ~sessions[Get(sessions, resp'[c].sessionId)].inUse
             /\ sessions'[Get(sessions', resp'[c].sessionId)].inUse
             /\ nextId' = nextId
             /\ remote' = remote]_vars

\* a caller has just been handed a reused record, now in use
ReusePreferenceWitness ==
    \E c \in Callers :
        /\ pc[c] = "connect"
        /\ resp[c].isReused
        /\ Get(sessions, sid[c]) # 0
        /\ sessions[Get(sessions, sid[c])].inUse
        /\ sessions[Get(sessions, sid[c])].lastUsed = now

\* C8 MRU selection: the record an acquire reuses was idle and no idle
\* record had a greater lastUsed.
MRUSelection ==
    [][\A c \in Callers :
          (AcquireStep(c) /\ resp'[c].isReused)
          => LET k == Get(sessions, resp'[c].sessionId) IN
             /\ k # 0
             /\ ~sessions[k].inUse
             /\ \A i \in 1..Len(sessions) :
                   ~sessions[i].inUse
                       => sessions[i].lastUsed <= sessions[k].lastUsed]_vars

\* a record was reused while an idle record released earlier stays idle
MRUSelectionWitness ==
    \E c \in Callers :
        /\ pc[c] = "connect"
        /\ resp[c].isReused
        /\ Get(sessions, sid[c]) # 0
        /\ \E i \in 1..Len(sessions) :
              /\ ~sessions[i].inUse
              /\ sessions[i].lastUsed
                     < sessions[Get(sessions, sid[c])].lastUsed

\* the idle records older than the staleness threshold
StaleIdle(sess, t) ==
    {sess[i].sessionId : i \in {j \in 1..Len(sess) :
        ~sess[j].inUse /\ t - sess[j].lastUsed > staleThreshold}}

Range(f) == {f[i] : i \in DOMAIN f}

\* C9 Eviction liveness: a cleanup call takes up every record that is idle
\* and stale when it starts, and none of them is in the table when it
\* returns.
EvictionLiveness ==
    /\ [][\A p \in CleanupCallers :
            (pc[p] = "idle" /\ pc'[p] # "idle")
            => /\ StaleIdle(sessions, now) \subseteq Range(list'[p])
               /\ pc'[p] = "returned"
                    => StaleIdle(sessions, now) = {}]_vars
    /\ [][\A p \in CleanupCallers :
            (pc[p] \in {"cl_connect", "cl_close"}
                /\ pc'[p] \in {"idle", "returned"})
            => Range(list[p]) \cap SessionIds(sessions') = {}]_vars
    /\ [](pc["admin"] = "returned"
            => Range(list["admin"]) \cap SessionIds(sessions) = {})

\* a cleanup call has returned after evicting a stale idle record
EvictionLivenessWitness ==
    /\ pc["admin"] = "returned"
    /\ cleanupResp.cleanedSessions > 0
    /\ Range(list["admin"]) \cap SessionIds(sessions) = {}

\* C10 Exhaustion: with maxSessions records, all in use, acquire answers 429
\* Session limit reached, launches nothing and leaves the table as it was.
Exhaustion ==
    [][\A c \in Callers :
          (/\ AcquireStep(c)
           /\ Len(sessions) = MaxSessions
           /\ AllActive(sessions))
          => /\ pc'[c] = "idle"
             /\ resp'[c].status = 429
             /\ resp'[c].sessionId = NoId
             /\ sessions' = sessions
             /\ nextId' = nextId
             /\ remote' = remote]_vars

\* the table is full of records in use and a caller has been refused
ExhaustionWitness ==
    /\ Len(sessions) = MaxSessions
    /\ AllActive(sessions)
    /\ \E c \in Callers : pc[c] = "idle" /\ resp[c].status = 429

\* C11 Release-then-reacquire: an acquire that follows at once the release
\* of the id X an acquire had answered, no other request handled from the
\* start of that first acquire on, answers X with isReused true.
ReleaseThenReacquire ==
    [][\A c \in Callers :
          (/\ AcquireStep(c)
           /\ lastOp.op = "release" /\ lastOp.chain /\ lastOp.status = 200)
          => /\ pc'[c] = "connect"
             /\ resp'[c].status = 200
             /\ resp'[c].sessionId = lastOp.id
             /\ resp'[c].isReused]_vars

\* the id just released was answered again, another record being idle
ReleaseThenReacquireWitness ==
    /\ lastOp.op = "acquire"
    /\ lastOp.prevId # NoId
    /\ lastOp.id = lastOp.prevId
    /\ IdleCount(sessions) > 0
    /\ \E c \in Callers :
          /\ pc[c] = "connect"
          /\ resp[c].isReused
          /\ resp[c].sessionId = lastOp.id

\* the step is caller c's release being processed
ReleaseStep(c) ==
    /\ pc[c] \in {"release_ok", "release_err"}
    /\ pc'[c] = "idle"

\* C12 Unknown release: release of an id that has no record answers 404 and
\* leaves the table, and so the counts of status, as they were.
UnknownRelease ==
    [][\A c \in Callers :
          (ReleaseStep(c) /\ Get(sessions, sid[c]) = 0)
          => /\ lastOp'.op = "release"
             /\ lastOp'.id = sid[c]
             /\ lastOp'.status = 404
             /\ sessions' = sessions
             /\ getStatus(sessions') = getStatus(sessions)]_vars

\* a release was answered 404 while the table holds records
UnknownReleaseWitness ==
    /\ lastOp.op = "release"
    /\ lastOp.status = 404
    /\ Get(sessions, lastOp.id) = 0
    /\ Len(sessions) > 0

\* C13 Release of a known id: its record becomes idle with lastUsed = now,
\* the answer is a success, every other record and the number of records
\* stay, and the Browser Factory is not called: no session is launched and
\* none is closed.
ReleaseEffect ==
    [][\A c \in Callers :
          (ReleaseStep(c) /\ Get(sessions, sid[c]) # 0)
          => LET k == Get(sessions, sid[c]) IN
             /\ Len(sessions') = Len(sessions)
             /\ sessions'[k] = [sessions[k] EXCEPT !.inUse = FALSE,
                                                   !.lastUsed = now]
             /\ \A i \in 1..Len(sessions) :
                   i # k => sessions'[i] = sessions[i]
             /\ lastOp'.op = "release"
             /\ lastOp'.status = 200
             /\ remote' = remote
             /\ nextId' = nextId]_vars

\* a record in use since an earlier time has been released: it is idle, its
\* lastUsed is the time of the release and its remote session is alive
ReleaseEffectWitness ==
    /\ lastOp.op = "release"
    /\ lastOp.status = 200
    /\ Get(sessions, lastOp.id) # 0
    /\ ~sessions[Get(sessions, lastOp.id)].inUse
    /\ sessions[Get(sessions, lastOp.id)].lastUsed = now
    /\ sessions[Get(sessions, lastOp.id)].createdAt < now
    /\ lastOp.id \in remote
    /\ Len(sessions) > 1

\* C14 Creation failure: an acquire whose launch fails leaves the table as
\* it was, when it starts the launch and when the launch rejects, launches
\* nothing, and answers an error (500) without a session id.
CreationFailure ==
    [][\A c \in Callers :
          /\ (pc[c] = "idle" /\ pc'[c] = "launching") => sessions' = sessions
          /\ (pc[c] = "launching" /\ pc'[c] = "idle")
             => /\ sessions' = sessions
                /\ remote' = remote
                /\ nextId' = nextId
                /\ grants' = grants
                /\ resp'[c].status = 500
                /\ resp'[c].sessionId = NoId
                /\ lastOp'.op = "acquire"
                /\ lastOp'.status = 500
                /\ lastOp'.id = NoId]_vars

\* a launch inside acquire has failed while the table holds a record
CreationFailureWitness ==
    /\ lastOp.op = "acquire"
    /\ lastOp.status = 500
    /\ Len(sessions) > 0
    /\ \E c \in Callers : pc[c] = "idle" /\ resp[c].status = 500

\* the positions in which a handler awaits the Browser Factory
InFlight == {"launching", "cl_connect", "cl_close"}

\* C15 Serialization: while a handler awaits the Browser Factory, no other
\* request is handled: the table stays as it is and no request is answered
\* or started until that handler goes on.
Serialization ==
    [][\A p \in Procs :
          (pc[p] \in InFlight /\ pc'[p] = pc[p] /\ idx'[p] = idx[p])
          => /\ sessions' = sessions
             /\ lastOp' = lastOp
             /\ \A q \in Procs : pc[q] \notin InFlight
                                     => pc'[q] \notin InFlight]_vars

\* the step removes the record with this id in the second loop of a cleanup
RemovedByCleanup(id) ==
    \E p \in Procs :
        /\ pc[p] \in {"cl_connect", "cl_close"}
        /\ list[p][idx[p]] = id
        /\ idx'[p] # idx[p] \/ pc'[p] \notin {"cl_connect", "cl_close"}

\* C16 Removal: a record leaves the table only in a cleanup, and at that
\* moment it is idle and its idle age exceeds the staleness threshold.
RemovalOnlyStale ==
    [][\A i \in 1..Len(sessions) :
          sessions[i].sessionId \notin SessionIds(sessions')
          => /\ RemovedByCleanup(sessions[i].sessionId)
             /\ ~sessions[i].inUse
             /\ now - sessions[i].lastUsed > staleThreshold]_vars

\* C17 Acquire under pressure: acquire answers 429 only after it has run a
\* cleanup pass and tried the selection of an idle record again.
CleanupBeforeExhausted ==
    [][\A c \in Callers :
          (/\ pc[c] \in {"idle", "cl_connect", "cl_close"}
           /\ pc'[c] = "idle"
           /\ lastOp' # lastOp
           /\ lastOp'.op = "acquire"
           /\ lastOp'.status = 429)
          => lastOp'.cleaned]_vars

\* C20 Abandoned session: a record in use stays in the table and in use in
\* every step that is not the release of its id.
ActiveUntilRelease ==
    [][\A i \in 1..Len(sessions) :
          sessions[i].inUse
          => \/ /\ Get(sessions', sessions[i].sessionId) # 0
                /\ sessions'[Get(sessions', sessions[i].sessionId)].inUse
             \/ \E c \in Callers :
                   ReleaseStep(c) /\ sid[c] = sessions[i].sessionId]_vars

\* C19 Status: a status request is answered with success, changes neither
\* the table nor the remote sessions, and its counts are total = in use +
\* available = number of records, with max = maxSessions.
StatusPureRead ==
    [][(lastOp'.op = "status" /\ lastOp' # lastOp)
          => /\ sessions' = sessions
             /\ remote' = remote
             /\ nextId' = nextId
             /\ lastOp'.status = 200
             /\ lastOp'.counts.totalSessions = Len(sessions)
             /\ lastOp'.counts.inUseSessions = ActiveCount(sessions)
             /\ lastOp'.counts.availableSessions = IdleCount(sessions)
             /\ lastOp'.counts.totalSessions
                    = lastOp'.counts.inUseSessions
                      + lastOp'.counts.availableSessions
             /\ lastOp'.counts.maxSessions = MaxSessions]_vars

\* status has been answered for a table with records in use and idle
StatusPureReadWitness ==
    /\ lastOp.op = "status"
    /\ lastOp.counts.inUseSessions > 0
    /\ lastOp.counts.availableSessions > 0
    /\ lastOp.counts.totalSessions = Len(sessions)

\* C18 Eviction timer: at every moment an alarm is pending or its handler
\* is in its cleanup, and again and again, whatever the callers do and
\* whatever becomes of connect and close, the handler has run to its end
\* and has scheduled the next alarm.
EvictionTimer ==
    /\ [](alarmSet \/ pc["timer"] \in {"cl_connect", "cl_close"})
    /\ []<>(lastOp.op = "alarm" /\ alarmSet /\ pc["timer"] = "idle")

\* the alarm handler has run to its end and an alarm is pending, after a
\* cleanup in which it removed a record whose remote session it could not
\* close
EvictionTimerWitness ==
    /\ lastOp.op = "alarm"
    /\ lastOp.id # NoId
    /\ lastOp.id \in remote
    /\ Get(sessions, lastOp.id) = 0
    /\ alarmSet
    /\ pc["timer"] = "idle"

\* C21 Health check before reuse: the id an acquire answers with isReused
\* true is the id of a remote browser that exists.
HealthCheckBeforeReuse ==
    [][\A c \in Callers :
          (AcquireStep(c) /\ resp'[c].isReused)
          => resp'[c].sessionId \in remote']_vars

\* C22 Fallback on failed reuse: a render whose acquire answered a reused
\* id does not fail at the connect: it goes on to the page work, on that
\* session or on a new one.
FallbackOnFailedReuse ==
    [][\A c \in Callers :
          (pc[c] = "connect" /\ resp[c].isReused /\ pc'[c] # "connect")
          => pc'[c] = "page"]_vars

CleanupCountsRemovals ==
    [][(pc["admin"] \in {"cl_connect", "cl_close"}
        /\ idx'["admin"] # idx["admin"])
       => /\ idx'["admin"] > idx["admin"]
          /\ list'["admin"] = list["admin"]
          /\ \A k \in idx["admin"]..(idx'["admin"] - 1) :
                /\ Get(sessions, list["admin"][k]) # 0
                /\ Get(sessions', list["admin"][k]) = 0
          /\ pc'["admin"] = "returned"
                => cleanupResp'.cleanedSessions = Len(list["admin"])]_vars

\* the record of id before and after the step, for an id that keeps its
\* record
Before(id) == sessions[Get(sessions, id)]
After(id) == sessions'[Get(sessions', id)]
Kept(id) == Get(sessions, id) # 0 /\ Get(sessions', id) # 0

\* the step is a release of id, sent by the caller that holds it
ReleasedBy(id) == \E c \in Callers : ReleaseStep(c) /\ sid[c] = id

\* the step is an acquire that answers id as a reused session
ReusedBy(id) ==
    \E c \in Callers : /\ pc[c] \in {"idle", "cl_connect", "cl_close"}
                        /\ pc'[c] = "connect"
                        /\ resp'[c].isReused
                        /\ resp'[c].sessionId = id

\* C25 as stated: lastUsed of a record changes only when the record is
\* created or when a release takes it from in use to idle, and createdAt
\* never changes.
TimestampsOnlyOnRelease ==
    [][\A id \in Ids :
          Kept(id) => /\ After(id).createdAt = Before(id).createdAt
                      /\ After(id).lastUsed # Before(id).lastUsed
                            => /\ ReleasedBy(id)
                               /\ Before(id).inUse
                               /\ ~After(id).inUse]_vars

\* C25 as amended: lastUsed of a record changes only when the record is
\* created, when acquire answers that record as a reused session, or when
\* a release of that record is processed, and createdAt never changes;
\* status, cleanup and an acquire that answers another record leave both
\* timestamps of the record as they were.
TimestampsOnAcquireAndRelease ==
    [][\A id \in Ids :
          Kept(id) => /\ After(id).createdAt = Before(id).createdAt
                      /\ After(id).lastUsed # Before(id).lastUsed
                            => ReleasedBy(id) \/ ReusedBy(id)]_vars

\* an acquire has answered a record created at an earlier time, and its
\* lastUsed is the time of the acquire, while an idle record keeps an
\* earlier lastUsed
TimestampsWitness ==
    /\ lastOp.op = "acquire"
    /\ lastOp.status = 200
    /\ Get(sessions, lastOp.id) # 0
    /\ sessions[Get(sessions, lastOp.id)].lastUsed = now
    /\ sessions[Get(sessions, lastOp.id)].createdAt < now
    /\ \E i \in 1..Len(sessions) :
          ~sessions[i].inUse /\ sessions[i].lastUsed < now

\* C26 Cleanup accounting: the response of a cleanup request satisfies
\* cleaned + remaining = the number of records when the request started, and
\* remaining is the number of records when it returns, whatever was
\* processed while it awaited connect or close.
CleanupAccounting ==
    pc["admin"] = "returned"
    => /\ cleanupResp.cleanedSessions + cleanupResp.remainingSessions
             = sizeAtStart
       /\ cleanupResp.remainingSessions = Len(sessions)

\* C27 The cleanup pass inside acquire: when handleAcquireSession finds no
\* idle record and the table at capacity, its cleanup pass has nothing to
\* close, the second selection finds nothing, and the answer is 429 with
\* the table as it was.
AcquireCleanupFindsNothing ==
    [][\A c \in Callers :
          (/\ AcquireStep(c)
           /\ variant = "Optimized"
           /\ findAvailableSession(sessions) = 0
           /\ AtCapacity(sessions))
          => /\ StaleIds(sessions, now) = <<>>
             /\ sessions' = sessions
             /\ remote' = remote
             /\ pc'[c] = "idle"
             /\ resp'[c].status = 429]_vars

\* handleAcquireSession has answered 429 after its cleanup pass, on a table
\* whose records were last used more than the threshold ago
AcquireCleanupWitness ==
    /\ variant = "Optimized"
    /\ lastOp.op = "acquire"
    /\ lastOp.cleaned
    /\ lastOp.status = 429
    /\ \E i \in 1..Len(sessions) :
          now - sessions[i].lastUsed > staleThreshold

\* C28 The two coordinator classes agree: where their code differs, one
\* does what the other does.  An acquire that finds no idle record and the
\* table at capacity is answered as SimpleBrowserSessionManager answers it
\* and as BrowserSessionManager answers it, with the same table; and the
\* loop of a cleanup in flight goes on to the same id in both classes.
ClassesAgree ==
    [][/\ \A c \in Callers :
             (/\ AcquireStep(c)
              /\ findAvailableSession(sessions) = 0
              /\ AtCapacity(sessions))
             => /\ AcquireAtCapacity("Simple", c)
                /\ AcquireAtCapacity("Optimized", c)
       /\ \A p \in Procs :
             pc[p] \in {"cl_connect", "cl_close"}
             => NextToCloseIn("Simple",
                              Delete(sessions, list[p][idx[p]]), list[p],
                              idx[p] + 1)
                = NextToCloseIn("Optimized",
                                Delete(sessions, list[p][idx[p]]), list[p],
                                idx[p] + 1)]_vars

\* BrowserSessionManager's cleanup has removed the first record of its
\* list and awaits the connect to the second, whose record is in the table
ClassesAgreeWitness ==
    /\ variant = "Optimized"
    /\ \E p \in CleanupCallers :
          /\ pc[p] = "cl_connect"
          /\ idx[p] = 2
          /\ Get(sessions, list[p][1]) = 0
          /\ Get(sessions, list[p][2]) # 0

\* the remote browser of the idle record of id is gone
DeadIdle(id) ==
    /\ Get(sessions, id) # 0
    /\ ~sessions[Get(sessions, id)].inUse
    /\ id \notin remote

\* a caller has been handed id as a reused session and is about to connect
TrafficOn(id) ==
    \E c \in Callers : pc[c] = "connect" /\ resp[c].isReused /\ sid[c] = id

\* a caller is connected to a browser
Working == \E c \in Callers : pc[c] = "page"

\* C29 A dead session does not stay in the pool forever: if callers keep
\* being handed the first session, then once its remote browser is gone
\* while its record is idle, the record is eventually removed, and a caller
\* eventually is connected to a browser.
DeadSessionLeaves ==
    []<>TrafficOn(1)
    => /\ DeadIdle(1) ~> (Get(sessions, 1) = 0)
       /\ DeadIdle(1) ~> Working

\* C30 Release is idempotent on state and not tied to ownership: a release
\* of an id that has a record answers success, whoever sends it; it leaves
\* the number of records and every other record as they were and the record
\* idle, and when the record was idle already it changes nothing but the
\* lastUsed of that record.
ReleaseIdempotent ==
    [][\A id \in Ids :
          (ForeignRelease(id) /\ Get(sessions, id) # 0)
          => /\ lastOp'.status = 200
             /\ Len(sessions') = Len(sessions)
             /\ \A i \in 1..Len(sessions) :
                   /\ sessions'[i].sessionId = sessions[i].sessionId
                   /\ sessions'[i].createdAt = sessions[i].createdAt
                   /\ sessions[i].sessionId # id => sessions'[i] = sessions[i]
                   /\ sessions[i].sessionId = id
                         => /\ ~sessions'[i].inUse
                            /\ sessions'[i].lastUsed = now
             /\ ~Before(id).inUse
                   => \A i \in 1..Len(sessions) :
                         sessions'[i].inUse = sessions[i].inUse]_vars

\* a record that was idle has been released again, at a later time than its
\* first release, and is idle
ReleaseIdempotentWitness ==
    /\ lastOp.op = "release"
    /\ lastOp.by = "repeat"
    /\ lastOp.status = 200
    /\ Get(sessions, lastOp.id) # 0
    /\ ~sessions[Get(sessions, lastOp.id)].inUse
    /\ sessions[Get(sessions, lastOp.id)].lastUsed = now
    /\ sessions[Get(sessions, lastOp.id)].createdAt < now
    /\ Len(sessions) >= 2

====
